---- MODULE Spec2Model ----
(***************************************************************************)
(* A model of mwviews/api/pageviews.py: the PageviewsClient, its three     *)
(* operations (article_views, project_views, top_articles), the thread     *)
(* pool behind get_concurrent, and the module's pure helpers.              *)
(*                                                                         *)
(* Values.  A Python value that the code type-tests is a record with a     *)
(* field "type": None, date (ord: day of the year), datetime (t: hours     *)
(* since 2023-01-01 00:00) or str (chars: its characters).  The calendar   *)
(* is the year 2023; every date string among the inputs lies in it.        *)
(* An exception is a record [exc |-> its class name].                      *)
(***************************************************************************)
EXTENDS Integers, Sequences, FiniteSets, TLC

\* ------------------------------------------------------------- bounds
\* The server mentions at most the first MaxItems buckets of a range.
MaxItems == 1
\* View counts a response may carry: 0..MaxViews.
MaxViews == 1
\* The client's parallelism is drawn from 1..MaxParallelism.
MaxParallelism == 2

\* ---------------------------------------------------- program constants
\* Python's None as a view count (counts are non-negative).
None == -1
\* requests.codes.too_many
too_many == 429
\* timedelta(30)
DefaultSpanDays == 30
\* str.ljust(10, '0')
DateWidth == 10
\* the default limit of top_articles
DefaultLimit == 1000

\* ------------------------------------------------------------ calendar
\* The modelled calendar: one (non-leap) year and its months' lengths.
Calendar == [year |-> 2023, days |-> <<31, 28, 31, 30, 31, 30, 31, 31, 30, 31, 30, 31>>]
BaseYear == Calendar.year
DaysInMonth == Calendar.days

RECURSIVE DaysBefore(_)
DaysBefore(m) == IF m <= 1 THEN 0 ELSE DaysBefore(m - 1) + DaysInMonth[m - 1]

\* day of the year of month m, day d
Ordinal(m, d) == DaysBefore(m) + d

MonthOf(ord) ==
    CHOOSE m \in 1..12 : DaysBefore(m) < ord /\ ord <= DaysBefore(m) + DaysInMonth[m]

DayOf(ord) == ord - DaysBefore(MonthOf(ord))

\* Python values
PyNone == [type |-> "None"]
PyDate(ord) == [type |-> "date", ord |-> ord]
PyDatetime(t) == [type |-> "datetime", t |-> t]
PyStr(chars) == [type |-> "str", chars |-> chars]
Raise(name) == [type |-> "exception", exc |-> name]
IsExc(v) == v.type = "exception"

\* datetime(year, month, day, hour) as hours since the start of BaseYear
MkDatetime(ord, hour) == PyDatetime((ord - 1) * 24 + hour)
OrdOfT(t) == (t \div 24) + 1
HourOfT(t) == t % 24

\* x or y
Truthy(v) == v.type # "None" /\ ~(v.type = "str" /\ v.chars = <<>>)

\* date.today()
Today == PyDate(Ordinal(2, 2))

\* ------------------------------------------------------------- helpers
\* s.ljust(10, '0')
RECURSIVE ljust(_, _, _)
ljust(s, width, fill) == IF Len(s) >= width THEN s ELSE ljust(Append(s, fill), width, fill)

Num2(s, i) == s[i] * 10 + s[i + 1]
Num4(s, i) == Num2(s, i) * 100 + Num2(s, i + 2)

\* parse_date: datetime.strptime(stringDate.ljust(10, '0'), '%Y%m%d%H')
parse_date(stringDate) ==
    IF stringDate.type # "str" THEN Raise("AttributeError")
    ELSE LET s == ljust(stringDate.chars, DateWidth, 0)
         IN IF Len(s) # DateWidth \/ \E i \in 1..Len(s) : s[i] \notin 0..9
            THEN Raise("ValueError")
            ELSE LET y == Num4(s, 1)
                     m == Num2(s, 5)
                     d == Num2(s, 7)
                     h == Num2(s, 9)
                 IN IF y # BaseYear \/ m \notin 1..12 \/ h \notin 0..23
                    THEN Raise("ValueError")
                    ELSE IF d \notin 1..DaysInMonth[m]
                         THEN Raise("ValueError")
                         ELSE MkDatetime(Ordinal(m, d), h)

Digits2(n) == <<n \div 10, n % 10>>
Digits4(n) == Digits2(n \div 100) \o Digits2(n % 100)

\* year, month, day, hour of a date or datetime (getattr(d, 'hour', 0))
OrdOf(d) == IF d.type = "date" THEN d.ord ELSE OrdOfT(d.t)
HourOf(d) == IF d.type = "date" THEN 0 ELSE HourOfT(d.t)

\* format_date: datetime.strftime(d, '%Y%m%d%H')
format_date(d) ==
    Digits4(BaseYear) \o Digits2(MonthOf(OrdOf(d))) \o Digits2(DayOf(OrdOf(d)))
        \o Digits2(HourOf(d))

\* d - timedelta(days): a date stays a date, a datetime a datetime
MinusDays(d, days) ==
    IF d.type = "date" THEN PyDate(d.ord - days) ELSE PyDatetime(d.t - days * 24)

\* timestamps_between: the buckets start, start + increment, ... while <= end,
\* as hours; increment is in hours
RECURSIVE Between(_, _, _)
Between(s, e, increment) ==
    IF s <= e THEN <<s>> \o Between(s + increment, e, increment) ELSE <<>>

timestamps_between(start, end, increment) ==
    Between(MkDatetime(OrdOf(start), HourOf(start)).t,
            MkDatetime(OrdOf(end), HourOf(end)).t, increment)

\* month_from_day: datetime(dt.year, dt.month, 1)
month_from_day(t) == MkDatetime(Ordinal(MonthOf(OrdOfT(t)), 1), 0).t

\* ------------------------------------------------------ request planning
\* a.replace(' ', '_') on a title (a sequence of characters)
replace_space(a) == [i \in 1..Len(a) |-> IF a[i] = " " THEN "_" ELSE a[i]]

\* quote(a, safe=''): letters, digits and "_.-~" are kept, every other
\* character is percent-encoded ('/' included, since safe is empty)
PercentEncoded == [c \in {" ", "/"} |-> IF c = " " THEN "%20" ELSE "%2F"]
quote(a) == [i \in 1..Len(a) |-> IF a[i] \in DOMAIN PercentEncoded
                                  THEN PercentEncoded[a[i]] ELSE a[i]]

endpoints == [article |-> "per-article", project |-> "aggregate", top |-> "top"]

\* '/'.join([...]): a URL is kept as the record of its path parts
ArticleUrl(project, access, agent, a, startDate, endDate) ==
    [endpoint |-> endpoints.article, project |-> project, access |-> access,
     agent |-> agent, article |-> a, granularity |-> "daily",
     start |-> format_date(startDate), end |-> format_date(endDate)]

ProjectUrl(p, access, agent, granularity, startDate, endDate) ==
    [endpoint |-> endpoints.project, project |-> p, access |-> access,
     agent |-> agent, article |-> <<>>, granularity |-> granularity,
     start |-> format_date(startDate), end |-> format_date(endDate)]

\* str(n).rjust(2, '0') for a month or day number
rjust2(n) == IF n < 10 THEN <<0, n>> ELSE Digits2(n)

TopUrl(project, access, year, month, day) ==
    [endpoint |-> endpoints.top, project |-> project, access |-> access,
     agent |-> "", article |-> <<>>, granularity |-> "",
     start |-> Digits4(year) \o rjust2(month) \o rjust2(day), end |-> <<>>]

\* lines 111-117 and 215-221: endDate and startDate from the arguments.
\* The result is [startDate, endDate], or the exception raised on the way.
NormalizeDates(start, end) ==
    LET endDate0 == IF Truthy(end) THEN end ELSE Today
        endDate == IF endDate0.type # "date" THEN parse_date(end) ELSE endDate0
    IN IF IsExc(endDate) THEN endDate
       ELSE LET startDate0 == IF Truthy(start) THEN start
                              ELSE MinusDays(endDate, DefaultSpanDays)
                startDate == IF startDate0.type # "date" THEN parse_date(start)
                             ELSE startDate0
            IN IF IsExc(startDate) THEN startDate
               ELSE [type |-> "range", startDate |-> startDate, endDate |-> endDate]

SeqToSet(s) == {s[i] : i \in 1..Len(s)}

\* Preseed as a range that excludes its end would seed it: the last bucket
\* is left out
PreseedExclusiveEnd(outputDays, subjects) ==
    [day \in {outputDays[i] : i \in 1..(Len(outputDays) - 1)} |->
        [a \in SeqToSet(subjects) |-> None]]

\* {day : {a : None for a in subjects} for day in outputDays}
Preseed(outputDays, subjects) ==
    [day \in SeqToSet(outputDays) |-> [a \in SeqToSet(subjects) |-> None]]

\* ------------------------------------------------------------ responses
\* A response: the URL it answers, its status code and its body.  A body
\* either is not JSON (result.json() raises ValueError), or is a JSON
\* object with or without an 'items' list.
NotJson == [json |-> FALSE, has_items |-> FALSE, items |-> <<>>]
NoItems == [json |-> TRUE, has_items |-> FALSE, items |-> <<>>]
ItemsBody(items) == [json |-> TRUE, has_items |-> TRUE, items |-> items]
Item(ts, subj, v) == [timestamp |-> PyStr(ts), subject |-> subj, views |-> v]
Response(url, status, body) ==
    [type |-> "response", url |-> url, status_code |-> status, body |-> body]

\* the item lists a server may send for one subject: one item for each of
\* some of the stamps, in increasing order, each with a count in 0..MaxViews
RECURSIVE ItemLists(_, _)
ItemLists(stamps, subj) ==
    IF stamps = <<>> THEN {<<>>}
    ELSE LET rest == ItemLists(Tail(stamps), subj)
         IN rest \cup {<<Item(Head(stamps), subj, v)>> \o r : v \in 0..MaxViews, r \in rest}

\* ------------------------------------------------------- result merging
\* output[ts][subj] = views, on a defaultdict(dict)
SetCell(output, ts, subj, views) ==
    [d \in DOMAIN output \cup {ts} |->
        IF d = ts
        THEN LET row == IF ts \in DOMAIN output THEN output[ts] ELSE <<>>
             IN [a \in DOMAIN row \cup {subj} |-> IF a = subj THEN views ELSE row[a]]
        ELSE output[d]]

\* for item in result['items']: output[parse_date(item['timestamp'])][...] = ...
RECURSIVE MergeItems(_, _)
MergeItems(output, items) ==
    IF items = <<>> THEN [exc |-> "", output |-> output]
    ELSE LET item == Head(items)
             ts == parse_date(item.timestamp)
         IN IF IsExc(ts) THEN [exc |-> ts.exc, output |-> output]
            ELSE MergeItems(SetCell(output, ts.t, item.subject, item.views), Tail(items))

\* lines 139-147 and 245-253: the loop over the results
RECURSIVE MergeResults(_, _, _)
MergeResults(output, results, some_data_returned) ==
    IF results = <<>>
    THEN [exc |-> "", output |-> output, some_data_returned |-> some_data_returned]
    ELSE LET result == Head(results).body
         IN IF ~result.json
            THEN [exc |-> "ValueError", output |-> output,
                  some_data_returned |-> some_data_returned]
            ELSE IF ~result.has_items
                 THEN MergeResults(output, Tail(results), some_data_returned)
                 ELSE LET m == MergeItems(output, result.items)
                      IN IF m.exc # ""
                         THEN [exc |-> m.exc, output |-> m.output,
                               some_data_returned |-> TRUE]
                         ELSE MergeResults(m.output, Tail(results), TRUE)

\* ------------------------------------------------------- classification
NoError == [kind |-> "none", exc |-> "", urls |-> <<>>]
Returned == [kind |-> "return", exc |-> "", urls |-> <<>>]
Raised(name) == [kind |-> "raise", exc |-> name, urls |-> <<>>]

\* get_wikipedia_error(results, return_error): the error, or NoError for
\* Python's None
get_wikipedia_error(results, return_error) ==
    IF \E i \in 1..Len(results) : results[i].status_code = too_many
    THEN Raised("ApiLimitExceeded")
    ELSE IF return_error
         THEN [kind |-> "raise", exc |-> "Exception",
               urls |-> [i \in 1..Len(results) |-> results[i].url]]
         ELSE NoError

\* -------------------------------------------------------- monthly roll-up
\* the inner loop, lines 158-161, over the articles of one day's row
RECURSIVE RollupRow(_, _, _, _)
RollupRow(output_monthly, month, views_per_article, todo) ==
    IF todo = {} THEN [exc |-> "", table |-> output_monthly]
    ELSE LET article == CHOOSE a \in todo : TRUE
             views == views_per_article[article]
         IN IF views # None /\ views # 0
            THEN IF article \notin DOMAIN output_monthly[month]
                 THEN [exc |-> "KeyError", table |-> output_monthly]
                 ELSE LET old == output_monthly[month][article]
                          updated_views == (IF old = None \/ old = 0 THEN 0 ELSE old) + views
                      IN RollupRow([output_monthly EXCEPT ![month][article] = updated_views],
                                   month, views_per_article, todo \ {article})
            ELSE RollupRow(output_monthly, month, views_per_article, todo \ {article})

\* the outer loop, lines 153-157, over the days of the merged table
RECURSIVE Rollup(_, _, _, _)
Rollup(output_monthly, output, days, articles) ==
    IF days = {} THEN [exc |-> "", table |-> output_monthly]
    ELSE LET day == CHOOSE d \in days : \A e \in days : d <= e
             month == month_from_day(day)
             seeded == IF month \in DOMAIN output_monthly THEN output_monthly
                       ELSE [m \in DOMAIN output_monthly \cup {month} |->
                               IF m = month THEN [a \in SeqToSet(articles) |-> None]
                               ELSE output_monthly[m]]
             r == RollupRow(seeded, month, output[day], DOMAIN output[day])
         IN IF r.exc # "" THEN r
            ELSE Rollup(r.table, output, days \ {day}, articles)

\* ------------------------------------------------------------ top articles
\* r.sort(key=lambda x: x['rank']): a stable insertion sort
RECURSIVE InsertByRank(_, _)
InsertByRank(x, sorted) ==
    IF sorted = <<>> THEN <<x>>
    ELSE IF Head(sorted).rank <= x.rank
         THEN <<Head(sorted)>> \o InsertByRank(x, Tail(sorted))
         ELSE <<x>> \o sorted

RECURSIVE SortByRank(_)
SortByRank(r) ==
    IF r = <<>> THEN <<>>
    ELSE InsertByRank(r[Len(r)], SortByRank(SubSeq(r, 1, Len(r) - 1)))

\* r[0:limit] for a limit >= 0
Slice(r, limit) == SubSeq(r, 1, IF limit < Len(r) THEN limit ELSE Len(r))

\* x or y, for an optional number
IntOr(x, y) == IF x = None \/ x = 0 THEN y ELSE x

\* --------------------------------------------------------------- inputs
NoHeaders == "None"
SomeHeaders == "User-Agent: mwviews"

Project == "en.wikipedia"
Access == "all-access"
Agent == "all-agents"

TCat == <<"c", "a", "t">>
TNewYork == <<"n", " ", "y">>
TStray == <<"z">>
ArticleLists == {<<TCat>>, <<TNewYork, TCat>>}
ProjectLists == {<<"en.wikipedia">>, <<"de.wikipedia", "en.wikipedia">>}
PStray == "zz.wikipedia"

StrJan31 == PyStr(<<2, 0, 2, 3, 0, 1, 3, 1>>)
StrFeb01 == PyStr(<<2, 0, 2, 3, 0, 2, 0, 1>>)
StrFeb02 == PyStr(<<2, 0, 2, 3, 0, 2, 0, 2>>)
StrJan31h23 == PyStr(<<2, 0, 2, 3, 0, 1, 3, 1, 2, 3>>)
StrFeb01h01 == PyStr(<<2, 0, 2, 3, 0, 2, 0, 1, 0, 1>>)
StrBadMonth == PyStr(<<2, 0, 2, 3, 1, 3, 0, 1>>)

\* the (start, end) arguments tried: unspecified, a date, a date string
DateArgs ==
    { <<PyNone, PyNone>>, <<PyNone, StrFeb02>>, <<PyNone, PyDate(Ordinal(2, 1))>>,
      <<StrJan31, StrFeb01>>, <<StrJan31h23, StrFeb01h01>>, <<StrBadMonth, PyNone>>,
      <<StrFeb01, StrFeb01>>, <<PyDate(Ordinal(1, 31)), PyNone>> }

\* with two subjects, the ranges tried
DateArgs2 == { <<PyNone, PyNone>>, <<StrJan31, StrFeb01>>, <<StrJan31h23, StrFeb01h01>> }

CallArgs(lists, granularities) ==
    { [subjects |-> l, granularity |-> g, start |-> d[1], end |-> d[2]] :
        l \in lists, g \in granularities,
        d \in DateArgs }

ArticleCalls ==
    { c \in CallArgs(ArticleLists, {"daily", "monthly"}) :
        Len(c.subjects) = 1 \/ <<c.start, c.end>> \in DateArgs2 }
\* (an hourly table of the default 30 days has 721 rows: hourly calls are
\* made with start given)
ProjectCalls ==
    { c \in CallArgs(ProjectLists, {"hourly", "daily", "monthly", "weekly"}) :
        /\ Len(c.subjects) = 1 \/ <<c.start, c.end>> \in DateArgs2
        /\ c.granularity = "hourly" => Truthy(c.start) }

TopEntry(rank, article, views) == [rank |-> rank, article |-> article, views |-> views]
TopLists ==
    { <<>>, <<TopEntry(1, TCat, 9)>>, <<TopEntry(2, TNewYork, 5), TopEntry(1, TCat, 9)>>,
      <<TopEntry(3, TStray, 2), TopEntry(1, TCat, 9), TopEntry(2, TNewYork, 5)>> }
TopBodies ==
    {NotJson, NoItems, ItemsBody(<<>>)}
        \cup {ItemsBody(<<[articles |-> l]>>) : l \in TopLists}
        \cup {ItemsBody(<<[articles |-> l], [articles |-> l]>>) : l \in TopLists}
TopCalls ==
    { [year |-> d[1], month |-> d[2], day |-> d[3], limit |-> k] :
        d \in {<<None, None, None>>, <<Calendar.year, 1, 5>>}, k \in {1, 2, DefaultLimit} }

\* ---------------------------------------------------------------- state
VARIABLES
    parallelism,            \* self.parallelism
    custom_http_headers,    \* self.custom_http_headers
    pc,                     \* where the one call is: idle, fetching, raising, fetched, done
    op,                     \* the operation called
    args,                   \* its arguments
    subjects,               \* articles (spaces replaced) or projects
    startDate, endDate,     \* the normalised range
    increment,              \* the bucket increment, in hours (0: not selected)
    urls,                   \* the planned URLs
    output,                 \* the pre-seeded, then merged table
    futures,                \* the pool's futures: pending, running, finished, cancelled
    responses,              \* each future's result: a response or an exception
    completed,              \* the futures in the order they finished
    itpos,                  \* the next future executor.map's iterator yields
    results,                \* the results yielded so far
    sent,                   \* every HTTP GET issued: its URL and headers
    outcome,                \* how the call ended: returned, or raised what
    ret                     \* the value returned

vars == <<parallelism, custom_http_headers, pc, op, args, subjects, startDate, endDate,
          increment, urls, output, futures, responses, completed, itpos, results, sent,
          outcome, ret>>

client == <<parallelism, custom_http_headers>>
pool == <<futures, responses, completed, itpos, results>>

\* PageviewsClient.__init__, and no call made yet
Init ==
    /\ parallelism \in 1..MaxParallelism
    /\ custom_http_headers \in {NoHeaders, SomeHeaders}
    /\ pc = "idle"
    /\ op = ""
    /\ args = <<>>
    /\ subjects = <<>>
    /\ startDate = PyNone
    /\ endDate = PyNone
    /\ increment = 0
    /\ urls = <<>>
    /\ output = <<>>
    /\ futures = <<>>
    /\ responses = <<>>
    /\ completed = <<>>
    /\ itpos = 1
    /\ results = <<>>
    /\ sent = <<>>
    /\ outcome = NoError
    /\ ret = <<>>

\* the call raised before planning anything
FailEarly(name, a, e) ==
    /\ pc' = "done"
    /\ op' = name
    /\ args' = a
    /\ outcome' = Raised(e)
    /\ UNCHANGED <<client, subjects, startDate, endDate, increment, urls, output, pool,
                   sent, ret>>

\* executor.map(f, urls): one future per URL, submitted in order
Submit(name, a, subj, range, inc, us, table) ==
    /\ pc' = "fetching"
    /\ op' = name
    /\ args' = a
    /\ subjects' = subj
    /\ startDate' = range.startDate
    /\ endDate' = range.endDate
    /\ increment' = inc
    /\ urls' = us
    /\ output' = table
    /\ futures' = [i \in 1..Len(us) |-> "pending"]
    /\ responses' = [i \in 1..Len(us) |-> PyNone]
    /\ completed' = <<>>
    /\ itpos' = 1
    /\ results' = <<>>
    /\ UNCHANGED <<client, sent, outcome, ret>>

\* article_views up to the call of get_concurrent (lines 111-138)
ArticleViews(a) ==
    /\ pc = "idle"
    /\ LET range == NormalizeDates(a.start, a.end)
       IN IF IsExc(range) THEN FailEarly("article_views", a, range.exc)
          ELSE LET articles == [i \in 1..Len(a.subjects) |-> replace_space(a.subjects[i])]
                   articlesSafe == [i \in 1..Len(articles) |-> quote(articles[i])]
                   us == [i \in 1..Len(articlesSafe) |->
                            ArticleUrl(Project, Access, Agent, articlesSafe[i],
                                       range.startDate, range.endDate)]
                   outputDays == timestamps_between(range.startDate, range.endDate, 24)
               IN Submit("article_views", a, articles, range, 24, us,
                         Preseed(outputDays, articles))

\* lines 231-236: the increment of a granularity, in hours;
\* timedelta(months=1) raises TypeError, and no branch binds increment for
\* another granularity, so that line 238 raises UnboundLocalError
SelectIncrement(granularity) ==
    IF granularity = "hourly" THEN [exc |-> "", hours |-> 1]
    ELSE IF granularity = "daily" THEN [exc |-> "", hours |-> 24]
    ELSE IF granularity = "monthly" THEN [exc |-> "TypeError", hours |-> 0]
    ELSE [exc |-> "UnboundLocalError", hours |-> 0]

\* project_views up to the call of get_concurrent (lines 215-244)
ProjectViews(a) ==
    /\ pc = "idle"
    /\ LET range == NormalizeDates(a.start, a.end)
       IN IF IsExc(range) THEN FailEarly("project_views", a, range.exc)
          ELSE LET us == [i \in 1..Len(a.subjects) |->
                            ProjectUrl(a.subjects[i], Access, Agent, a.granularity,
                                       range.startDate, range.endDate)]
                   inc == SelectIncrement(a.granularity)
               IN IF inc.exc # ""
                  THEN /\ pc' = "done"
                       /\ op' = "project_views"
                       /\ args' = a
                       /\ subjects' = a.subjects
                       /\ startDate' = range.startDate
                       /\ endDate' = range.endDate
                       /\ urls' = us
                       /\ outcome' = Raised(inc.exc)
                       /\ UNCHANGED <<client, increment, output, pool, sent, ret>>
                  ELSE Submit("project_views", a, a.subjects, range, inc.hours, us,
                              Preseed(timestamps_between(range.startDate, range.endDate,
                                                         inc.hours), a.subjects))

\* ------------------------------------------------------------ the server
\* the stamps the server may mention: the first MaxItems buckets of the range
ServerStamps ==
    LET b == timestamps_between(startDate, endDate, increment)
        n == IF Len(b) < MaxItems THEN Len(b) ELSE MaxItems
    IN [i \in 1..n |-> format_date(PyDatetime(b[i]))]

\* a stamp outside the requested range: the bucket before the first
StrayStamp ==
    format_date(PyDatetime(timestamps_between(startDate, endDate, increment)[1] - increment))

\* what the server may answer to the request of future i: the item lists
\* of its subject, a list that also mentions the bucket before the range,
\* and a list about a subject that was not requested
ServerResponses(i) ==
    LET subj == subjects[i]
        foreign == IF op = "article_views" THEN TStray ELSE PStray
        ok == {NotJson, NoItems}
                \cup {ItemsBody(l) : l \in ItemLists(ServerStamps, subj)}
                \cup {ItemsBody(<<Item(StrayStamp, subj, MaxViews),
                                  Item(ServerStamps[1], subj, MaxViews)>>),
                      ItemsBody(<<Item(ServerStamps[1], foreign, MaxViews)>>)}
    IN {Response(urls[i], 200, b) : b \in ok}
         \cup {Response(urls[i], 404, b) : b \in {NotJson, NoItems}}
         \cup {Response(urls[i], too_many, b) : b \in {NotJson, NoItems, ItemsBody(<<>>)}}

\* ------------------------------------------------------ get_concurrent
\* requests.get(url, headers=...): the request as issued
GetRequest(url, headers) == [url |-> url, headers |-> headers]

Running == {i \in 1..Len(futures) : futures[i] = "running"}

\* a free worker of ThreadPoolExecutor(self.parallelism) takes the next
\* queued future
WorkerStart(i) ==
    /\ pc \in {"fetching", "raising"}
    /\ i \in 1..Len(futures)
    /\ futures[i] = "pending"
    /\ \A j \in 1..(i - 1) : futures[j] # "pending"
    /\ Cardinality(Running) < parallelism
    /\ futures' = [futures EXCEPT ![i] = "running"]
    /\ UNCHANGED <<client, pc, op, args, subjects, startDate, endDate, increment, urls,
                   output, responses, completed, itpos, results, sent, outcome, ret>>

\* f(url) in a worker: the GET is issued with the client's headers, and
\* the future finishes with the response or with the transport's exception
WorkerGet(i) ==
    /\ pc \in {"fetching", "raising"}
    /\ i \in 1..Len(futures)
    /\ futures[i] = "running"
    /\ \E r \in ServerResponses(i) \cup {Raise("ConnectionError")} :
          responses' = [responses EXCEPT ![i] = r]
    /\ futures' = [futures EXCEPT ![i] = "finished"]
    /\ completed' = Append(completed, i)
    /\ sent' = Append(sent, GetRequest(urls[i], custom_http_headers))
    /\ UNCHANGED <<client, pc, op, args, subjects, startDate, endDate, increment, urls,
                   output, itpos, results, outcome, ret>>

\* NextFuture as an iterator over the futures as they complete would pick
\* it (0: none has completed that was not yet yielded)
NextCompleted(pos, done) == IF pos <= Len(done) THEN done[pos] ELSE 0

\* the future executor.map's result iterator waits for next: fs.pop() of
\* the reversed list, that is the futures in submission order
NextFuture(pos, done) == pos

\* list(executor.map(f, urls)): the iterator yields the next future's
\* result once it has finished; an exception is re-raised, the iterator's
\* finally cancels the futures not yet started, and the with block's exit
\* waits for the running ones
MapYield ==
    /\ pc = "fetching"
    /\ itpos <= Len(futures)
    /\ LET i == NextFuture(itpos, completed)
       IN /\ i \in 1..Len(futures)
          /\ futures[i] = "finished"
          /\ IF IsExc(responses[i])
             THEN /\ pc' = "raising"
                  /\ futures' = [j \in 1..Len(futures) |->
                                   IF futures[j] = "pending" THEN "cancelled" ELSE futures[j]]
                  /\ UNCHANGED <<itpos, results>>
             ELSE /\ results' = Append(results, responses[i])
                  /\ itpos' = itpos + 1
                  /\ pc' = IF itpos = Len(futures) THEN "fetched" ELSE "fetching"
                  /\ UNCHANGED futures
    /\ UNCHANGED <<client, op, args, subjects, startDate, endDate, increment, urls,
                   output, responses, completed, sent, outcome, ret>>

\* executor.__exit__ after the exception: shutdown(wait=True) returns when
\* no worker is running, and the exception leaves get_concurrent and, by
\* the handler's "except: ... raise", the call
MapRaise ==
    /\ pc = "raising"
    /\ Running = {}
    /\ pc' = "done"
    /\ outcome' = Raised(responses[NextFuture(itpos, completed)].exc)
    /\ UNCHANGED <<client, op, args, subjects, startDate, endDate, increment, urls,
                   output, pool, sent, ret>>

\* ------------------------------------------------- after get_concurrent
Finish(out, table, value) ==
    /\ pc' = "done"
    /\ outcome' = out
    /\ output' = table
    /\ ret' = value
    /\ UNCHANGED <<client, op, args, subjects, startDate, endDate, increment, urls, pool,
                   sent>>

\* article_views from line 139: merge, classify, roll up, return
ArticleViewsFinish ==
    /\ pc = "fetched"
    /\ op = "article_views"
    /\ LET m == MergeResults(output, results, FALSE)
       IN IF m.exc # "" THEN Finish(Raised(m.exc), m.output, <<>>)
          ELSE LET error == get_wikipedia_error(results, ~m.some_data_returned)
               IN IF error.kind = "raise" THEN Finish(error, m.output, <<>>)
                  ELSE IF args.granularity = "monthly"
                       THEN LET r == Rollup(<<>>, m.output, DOMAIN m.output, subjects)
                            IN IF r.exc # "" THEN Finish(Raised(r.exc), m.output, <<>>)
                               ELSE Finish(Returned, m.output, r.table)
                       ELSE Finish(Returned, m.output, m.output)

\* project_views from line 245: merge, classify, return
ProjectViewsFinish ==
    /\ pc = "fetched"
    /\ op = "project_views"
    /\ LET m == MergeResults(output, results, FALSE)
       IN IF m.exc # "" THEN Finish(Raised(m.exc), m.output, <<>>)
          ELSE LET error == get_wikipedia_error(results, ~m.some_data_returned)
               IN IF error.kind = "raise" THEN Finish(error, m.output, <<>>)
                  ELSE Finish(Returned, m.output, m.output)

\* top_articles: one GET, issued by requests.get(url) with no headers
TopArticles(a, r) ==
    /\ pc = "idle"
    /\ LET yesterday == MinusDays(Today, 1)
           year == IntOr(a.year, BaseYear)
           month == IntOr(a.month, MonthOf(yesterday.ord))
           day == IntOr(a.day, DayOf(yesterday.ord))
           url == TopUrl(Project, Access, year, month, day)
           result == IF IsExc(r) THEN r ELSE Response(url, r.status_code, r.body)
       IN /\ pc' = "done"
          /\ op' = "top_articles"
          /\ args' = a
          /\ urls' = <<url>>
          /\ sent' = Append(sent, GetRequest(url, NoHeaders))
          /\ responses' = <<result>>
          /\ IF IsExc(result)
             THEN outcome' = Raised(result.exc) /\ ret' = <<>>
             ELSE IF ~result.body.json
                  THEN outcome' = Raised("ValueError") /\ ret' = <<>>
                  ELSE IF result.body.has_items /\ Len(result.body.items) = 1
                       THEN /\ outcome' = Returned
                            /\ ret' = Slice(SortByRank(result.body.items[1].articles),
                                             a.limit)
                       ELSE LET error == get_wikipedia_error(<<result>>, FALSE)
                            IN /\ ret' = <<>>
                               \* raise None raises TypeError
                               /\ outcome' = IF error.kind = "raise" THEN error
                                              ELSE Raised("TypeError")
          /\ UNCHANGED <<client, subjects, startDate, endDate, increment, output, futures,
                         completed, itpos, results>>

TopResponses ==
    {[status_code |-> st, body |-> b, type |-> "response"] :
        st \in {200, 404, too_many}, b \in TopBodies}
        \cup {Raise("ConnectionError")}

Next ==
    \/ \E a \in ArticleCalls : ArticleViews(a)
    \/ \E a \in ProjectCalls : ProjectViews(a)
    \/ \E a \in TopCalls, r \in TopResponses : TopArticles(a, r)
    \/ \E i \in 1..Len(futures) : WorkerStart(i)
    \/ \E i \in 1..Len(futures) : WorkerGet(i)
    \/ MapYield
    \/ MapRaise
    \/ ArticleViewsFinish
    \/ ProjectViewsFinish

Spec == Init /\ [][Next]_vars

\* --------------------------------------------------------------- claims
IsBatch == op \in {"article_views", "project_views"}
\* get_concurrent was entered and every future has a result or an exception
Fetched == Len(urls) > 0 /\ Len(responses) = Len(urls)
GotResponse(i) == responses[i].type = "response"
HasItems(r) == r.body.json /\ r.body.has_items
NoUsableData == [kind |-> "raise", exc |-> "Exception", urls |-> urls]

\* C1: if any response of the batch has status 429, the call raises
\* ApiLimitExceeded, whatever the bodies and the other responses are.
C1_RateLimitAlwaysRaised ==
    (pc = "done" /\ IsBatch /\ Fetched
        /\ \E i \in 1..Len(responses) :
              GotResponse(i) /\ responses[i].status_code = too_many)
    => outcome = Raised("ApiLimitExceeded")

\* C2: a network-level failure of one request never leaves get_concurrent
\* as an exception: the siblings complete, and the call returns a table
\* when a sibling carried an items list and none was rate-limited.
C2_TransportFailureAbsorbed ==
    (pc = "done" /\ IsBatch /\ Fetched
        /\ \E i \in 1..Len(responses) : IsExc(responses[i]))
    => /\ outcome.exc # "ConnectionError"
       /\ \A j \in 1..Len(futures) : futures[j] = "finished"
       /\ ( ( /\ \E j \in 1..Len(responses) : GotResponse(j) /\ HasItems(responses[j])
              /\ \A j \in 1..Len(responses) :
                    GotResponse(j) => responses[j].status_code # too_many )
            => outcome.kind = "return" )

\* the title under which the table holds a requested subject
TableKey(subject) == IF op = "article_views" THEN replace_space(subject) ELSE subject
Monthly == op = "article_views" /\ args.granularity = "monthly"
\* the bucket of the returned table a timestamp falls into
Bucket(t) == IF Monthly THEN month_from_day(t) ELSE t
\* the buckets the requested range and granularity imply
ImpliedStamps ==
    {Bucket(t) : t \in SeqToSet(timestamps_between(startDate, endDate, increment))}
\* some response item is about bucket t and subject a
Mentioned(t, a) ==
    \E i \in 1..Len(results) :
        /\ HasItems(results[i])
        /\ \E k \in 1..Len(results[i].body.items) :
              LET item == results[i].body.items[k]
              IN item.subject = a /\ Bucket(parse_date(item.timestamp).t) = t
ReturnedTable == pc = "done" /\ IsBatch /\ outcome.kind = "return"

\* C3 as stated: in a returned table every (timestamp, subject) of the
\* requested range and of the subject list as requested is a key, with
\* value None when no response item mentioned it.
C3_RequestedSubjectsAreKeys ==
    ReturnedTable =>
        \A t \in ImpliedStamps : \A i \in 1..Len(args.subjects) :
            /\ t \in DOMAIN ret
            /\ args.subjects[i] \in DOMAIN ret[t]
            /\ ~Mentioned(t, args.subjects[i]) => ret[t][args.subjects[i]] = None

\* C3 as amended: in a returned table every (bucket, subject) of the
\* requested range and granularity and of the subject list, an article
\* title taken with its spaces replaced by underscores, is a key, with
\* value None when no response item mentioned it.
C3_NormalisedSubjectsAreKeys ==
    ReturnedTable =>
        \A t \in ImpliedStamps : \A i \in 1..Len(args.subjects) :
            /\ t \in DOMAIN ret
            /\ TableKey(args.subjects[i]) \in DOMAIN ret[t]
            /\ ~Mentioned(t, TableKey(args.subjects[i]))
                  => ret[t][TableKey(args.subjects[i])] = None

\* a returned table of two subjects, one requested with a space in its
\* title, with a cell that stayed None and a cell that was filled
C3_Witness ==
    /\ ReturnedTable
    /\ op = "article_views"
    /\ args.subjects = <<TNewYork, TCat>>
    /\ \E t \in ImpliedStamps :
          /\ ret[t][TableKey(TNewYork)] = None
          /\ ret[t][TCat] # None

\* C4: when get_concurrent returns, it returns one result per URL and the
\* i-th result is the i-th future's response, to the i-th URL, whatever
\* the order in which the workers started and completed.
C4_ResultsInUrlOrder ==
    /\ pc = "fetching"
          => /\ Len(results) = itpos - 1
             /\ \A i \in 1..Len(results) : results[i] = responses[i]
    /\ pc = "fetched"
          => /\ Len(results) = Len(urls)
             /\ \A i \in 1..Len(urls) :
                   results[i] = responses[i] /\ results[i].url = urls[i]

\* get_concurrent has returned two results whose requests completed in
\* the reverse of the URL order
C4_Witness ==
    /\ pc = "fetched"
    /\ completed = <<2, 1>>
    /\ Len(results) = 2
    /\ results[1].url = urls[1]
    /\ results[2].url = urls[2]
    /\ urls[1] # urls[2]

RECURSIVE SumViews(_, _, _)
SumViews(table, days, a) ==
    IF days = {} THEN 0
    ELSE LET d == CHOOSE x \in days : TRUE
         IN table[d][a] + SumViews(table, days \ {d}, a)

\* C5: a monthly article_views value is None exactly when no daily cell
\* of the month carried a count, and is otherwise the sum of the counts
\* present, a count of 0 being present.
C5_MonthlyIsSumOfPresentCounts ==
    (pc = "done" /\ Monthly /\ outcome.kind = "return") =>
        \A m \in DOMAIN ret : \A a \in SeqToSet(subjects) :
            LET present == {d \in DOMAIN output :
                              /\ month_from_day(d) = m
                              /\ a \in DOMAIN output[d]
                              /\ output[d][a] # None}
            IN ret[m][a] = IF present = {} THEN None ELSE SumViews(output, present, a)

\* an argument in an accepted form: unspecified, a date, a valid date string
Accepted(v) == v.type \in {"None", "date"} \/ (v.type = "str" /\ ~IsExc(parse_date(v)))

\* C6: with arguments in accepted forms the call gets past normalisation,
\* an unspecified end resolves to today and an unspecified start to the
\* resolved end minus 30 days.
C6_DefaultsResolve ==
    (pc # "idle" /\ IsBatch /\ Accepted(args.start) /\ Accepted(args.end)) =>
        /\ urls # <<>>
        /\ ~Truthy(args.end) => endDate = Today
        /\ ~Truthy(args.start) => startDate = MinusDays(endDate, DefaultSpanDays)

\* C7: project_views takes 1 hour, 1 day or 1 calendar month as the
\* increment of hourly, daily or monthly, pre-seeds the table with it, and
\* fails with UnsupportedGranularityError for another granularity.
C7_IncrementOfGranularity ==
    (pc # "idle" /\ op = "project_views" /\ urls # <<>>) =>
        /\ args.granularity = "hourly" => increment = 1
        /\ args.granularity = "daily" => increment = 24
        /\ args.granularity = "monthly" => outcome.exc # "TypeError" /\ DOMAIN output # {}
        /\ args.granularity \notin {"hourly", "daily", "monthly"}
              => outcome = Raised("UnsupportedGranularityError")

\* C8: top_articles returns a list when the body has exactly one items
\* entry, and otherwise raises the classifier's error: ApiLimitExceeded
\* for status 429, else the no-usable-data error.
C8_TopArticlesClassifierError ==
    (pc = "done" /\ op = "top_articles" /\ GotResponse(1) /\ responses[1].body.json) =>
        IF responses[1].body.has_items /\ Len(responses[1].body.items) = 1
        THEN outcome.kind = "return"
        ELSE IF responses[1].status_code = too_many
             THEN outcome = Raised("ApiLimitExceeded")
             ELSE outcome = NoUsableData

\* C9: with no 429 in the batch, the call raises the no-usable-data error
\* with the batch's URLs in input order when no body has an items key, and
\* returns the table when some body has one.
C9_NoDataOrTable ==
    (pc = "done" /\ IsBatch /\ Fetched
        /\ \A i \in 1..Len(responses) :
              GotResponse(i) /\ responses[i].status_code # too_many)
    => IF \E i \in 1..Len(responses) : HasItems(responses[i])
       THEN outcome.kind = "return"
       ELSE outcome = NoUsableData

\* C10: every GET issued carries the client's custom headers.
C10_HeadersOnEveryRequest ==
    \A i \in 1..Len(sent) : sent[i].headers = custom_http_headers

====
